---- MODULE Spec2Model ----
(***************************************************************************)
(* Log compaction and snapshot merging of libsql-server                    *)
(* (src/libsql-server/src/replication/snapshot.rs).                        *)
(*                                                                         *)
(* The specifications of the module:                                      *)
(*   Spec         the compactor worker, the merger task, the logger that   *)
(*                submits logs and a process crash followed by a restart;  *)
(*   SpecBuilder  SnapshotBuilder::append_frames / finish on frame streams *)
(*                drawn from a bounded set;                                *)
(*   SpecLookup   find_snapshot_file on directory contents drawn from a    *)
(*                bounded set of file names;                               *)
(*   SpecPending  LogCompactor::new on a to_compact/ directory that holds  *)
(*                logs with frames and header-only logs;                   *)
(*   SpecChannel  LogCompactor::compact as a call and its return, on the   *)
(*                channel of capacity 8;                                   *)
(*   SpecEmptyLog Spec with logs that carry no frame;                      *)
(*   SpecShould   should_compact on registries drawn from a bounded set;   *)
(*   SpecRegistry Spec with one-frame logs of a database of several pages; *)
(*   SpecShutdown SpecChannel with the drop of the LogCompactor and the    *)
(*                worker's normal termination.                             *)
(***************************************************************************)
EXTENDS Integers, Sequences, FiniteSets, TLC

VARIABLES
    \* ---- disk
    toCompact,      \* the log files in to_compact/
    snapDirExists,  \* whether snapshots/ exists
    snapshots,      \* the files in snapshots/
    \* ---- logger (caller of LogCompactor::compact)
    nLogs,          \* number of log files created so far
    nextFrameNo,    \* frame_no the next log starts at
    \* ---- compactor worker (closure spawned in LogCompactor::new)
    cpc,            \* position of the worker
    pending,        \* `pending`, the list gathered by pending_snapshots_list
    chan,           \* mpsc channel of capacity 8 to the worker
    cur,            \* the log being compacted and perform_compaction's result
    \* ---- merger task (run_snapshot_merger_loop)
    mpc,            \* position of the merger task
    mchan,          \* mpsc channel of capacity 1 to the merger
    registry,       \* `snapshots`, the list of (name, frame_count)
    working,        \* `working`
    job,            \* the coalescing future `job`
    \* ---- history
    regHist,        \* the logs registered with the merger since the last start
    pendingAtNew,   \* paths of the logs in to_compact/ at LogCompactor::new
    restarts,       \* number of crashes followed by a restart
    produced,       \* names perform_compaction returned since the last start
    cbHist,         \* invocations of the callback since the last start
    failure,        \* the step of compact() that failed, or "none"
    \* ---- SpecChannel: a caller inside LogCompactor::compact
    lpc,            \* position of the caller
    lret,           \* what the last call returned
    \* ---- SpecShould
    decision,       \* arguments and result of the last should_compact call
    \* ---- SpecBuilder
    bstream,        \* frames still to be fed to the builder
    bfed,           \* frames fed so far
    builder,        \* the SnapshotBuilder
    bresult,        \* the file finish() renamed in, or NoFile
    \* ---- SpecLookup
    found           \* result of the last find_snapshot_file call

diskVars == <<toCompact, snapDirExists, snapshots>>
loggerVars == <<nLogs, nextFrameNo>>
compactorVars == <<cpc, pending, chan, cur>>
mergerVars == <<mpc, mchan, registry, working, job>>
histVars == <<regHist, pendingAtNew, restarts>>
workVars == <<produced, cbHist, failure>>
callVars == <<lpc, lret>>
builderVars == <<bstream, bfed, builder, bresult>>
auxVars == <<callVars, decision, builderVars, found>>
vars == <<diskVars, loggerVars, compactorVars, mergerVars, histVars, workVars, auxVars>>

(***************************************************************************)
(* Bounds of the model.                                                    *)
(***************************************************************************)
MaxLogs == 3        \* log files the logger creates
MaxLogFrames == 2   \* frames in one log file
MaxPage == 2        \* page numbers are 1..MaxPage
MaxSizeAfter == 1   \* size_after of a commit frame is 1..MaxSizeAfter
MaxRestarts == 1    \* crashes followed by a restart
MaxStreamFrameNo == 3 \* SpecBuilder: frame numbers are 0..MaxStreamFrameNo
MaxLookupFrameNo == 3 \* SpecLookup: frame numbers are 0..MaxLookupFrameNo
MaxDirFiles == 3    \* SpecLookup: files in snapshots/
MaxPendingLogs == 3 \* SpecPending: logs with frames left in to_compact/
MaxEmptyLogs == 1   \* SpecPending: header-only logs left in to_compact/
MaxSubmits == 10    \* SpecChannel: calls of LogCompactor::compact
MaxShouldEntries == 2 \* SpecShould: registry entries of any frame_count
MaxShouldFrames == 2  \* SpecShould: their frame_count is 0..MaxShouldFrames
MaxDbPageCount == 20  \* SpecShould: db_page_count is 0..MaxDbPageCount
MaxRegistryDbPages == 2  \* SpecRegistry: size_after of a log is 1..MaxRegistryDbPages
MaxShutdownPending == 2  \* SpecShutdown: logs found in to_compact/ at startup
MaxShutdownLogs == 4     \* SpecShutdown: logs in all, pending ones included

(***************************************************************************)
(* Program constants.  TLC's integers are 32 bits wide, so u64 is modelled *)
(* 31 bits wide: U64_MAX is the largest value, the initial start_frame_no  *)
(* and last_seen_frame_no of a builder, and the value above which parsing  *)
(* a number overflows.                                                     *)
(***************************************************************************)
U64_MAX == 2147483647
SNAPHOT_SPACE_AMPLIFICATION_FACTOR == 2
MAX_SNAPSHOT_NUMBER == 32
CompactorChannelCapacity == 8
MergerChannelCapacity == 1

\* The log_id every snapshot of the database carries, as hyphenated hex text.
LogId == "hex-uuid"

(***************************************************************************)
(* Sequences.                                                              *)
(***************************************************************************)
RECURSIVE Reverse(_)
Reverse(s) == IF s = <<>> THEN <<>> ELSE Reverse(Tail(s)) \o <<Head(s)>>

Last(s) == s[Len(s)]

\* All the orders in which the entries of a directory can be enumerated.
Enumerations(S) ==
    {e \in [1..Cardinality(S) -> S] : \A i, j \in 1..Cardinality(S) : e[i] = e[j] => i = j}

\* A stable sort of records by their field `key` (Vec::sort_by_key, and
\* sort_unstable_by_key where the keys are distinct).
RECURSIVE InsertByKey(_, _)
InsertByKey(sorted, x) ==
    IF sorted = <<>> THEN <<x>>
    ELSE IF x.key < Head(sorted).key THEN <<x>> \o sorted
    ELSE <<Head(sorted)>> \o InsertByKey(Tail(sorted), x)

RECURSIVE SortByKey(_)
SortByKey(s) ==
    IF s = <<>> THEN <<>>
    ELSE InsertByKey(SortByKey(SubSeq(s, 1, Len(s) - 1)), Last(s))

(***************************************************************************)
(* Frames and snapshot file names.                                         *)
(***************************************************************************)
Frame(frame_no, page_no, size_after) ==
    [frame_no |-> frame_no, page_no |-> page_no, size_after |-> size_after]

\* Display of a u64 in format!: its decimal digits.
RECURSIVE to_string(_)
to_string(n) == IF n < 10 THEN <<n>> ELSE to_string(n \div 10) \o <<n % 10>>

\* str::parse::<u64>: Err on the empty string and on overflow.
RECURSIVE parse_digits(_, _)
parse_digits(acc, ds) ==
    IF ds = <<>> THEN [ok |-> TRUE, val |-> acc]
    ELSE IF acc > (U64_MAX - Head(ds)) \div 10 THEN [ok |-> FALSE, val |-> 0]
    ELSE parse_digits(acc * 10 + Head(ds), Tail(ds))

parse_u64(ds) == IF ds = <<>> THEN [ok |-> FALSE, val |-> 0] ELSE parse_digits(0, ds)

(***************************************************************************)
(* A file name is modelled by the parts the matcher looks at: `id`, the    *)
(* text where the database id goes, and the two digit strings.  The id is  *)
(* LogId (36 characters of hyphenated hex), WordId (five \w groups of the  *)
(* right lengths that are not hex) or NoId (no such groups: the matcher    *)
(* finds nothing in the name).                                             *)
(***************************************************************************)
WordId == "word-uuid"
NoId == "no-uuid"

FileName(id, start, end) == [id |-> id, start |-> start, end |-> end]

\* format!("{}-{}-{}.snap", Uuid::from_u128(log_id), start_frame_no, end_frame_no)
format_snapshot_name(log_id, start_frame_no, end_frame_no) ==
    FileName(log_id, to_string(start_frame_no), to_string(end_frame_no))

\* SNAPSHOT_FILE_MATCHER.captures(name): \w{8}-\w{4}-\w{4}-\w{4}-\w{12} then -(\d*)-(\d*).snap
matcher_captures(name) == name.id \in {LogId, WordId}

\* Uuid::from_str
uuid_from_str(id) == id = LogId

\* parse_snapshot_name: None, Some((id, start, end)), or a panic in one of the unwraps.
parse_snapshot_name(name) ==
    IF ~matcher_captures(name) THEN [kind |-> "None", start |-> 0, end |-> 0]
    ELSE IF ~parse_u64(name.start).ok \/ ~parse_u64(name.end).ok \/ ~uuid_from_str(name.id)
         THEN [kind |-> "panic", start |-> 0, end |-> 0]
    ELSE [kind |-> "Some", start |-> parse_u64(name.start).val, end |-> parse_u64(name.end).val]

(***************************************************************************)
(* SnapshotBuilder.                                                        *)
(***************************************************************************)
NoFile == [name |-> FileName(NoId, <<>>, <<>>),
           header |-> [log_id |-> NoId, start_frame_no |-> 0, end_frame_no |-> 0,
                       frame_count |-> 0, size_after |-> 0],
           frames |-> <<>>]

SnapshotBuilder_new(log_id) ==
    [seen_pages |-> {},
     header |-> [log_id |-> log_id, start_frame_no |-> U64_MAX, end_frame_no |-> 0,
                 frame_count |-> 0, size_after |-> 0],
     snapshot_file |-> <<>>,
     last_seen_frame_no |-> U64_MAX,
     panicked |-> FALSE]

\* A builder that keeps the first version of a page it meets but counts every frame.
append_frame_keep_all(b, frame) ==
    [b EXCEPT !.last_seen_frame_no = frame.frame_no,
              !.header.start_frame_no = IF frame.frame_no < @ THEN frame.frame_no ELSE @,
              !.header.end_frame_no = IF frame.frame_no >= @ THEN frame.frame_no ELSE @,
              !.header.size_after = IF frame.frame_no >= b.header.end_frame_no
                                    THEN frame.size_after ELSE @,
              !.header.frame_count = @ + 1,
              !.seen_pages = @ \cup {frame.page_no},
              !.snapshot_file = Append(@, [frame EXCEPT !.size_after = 0])]

\* A builder whose line 465 compares with > instead of >=.
append_frame_strict_end(b, frame) ==
    IF b.panicked THEN b
    ELSE IF ~(frame.frame_no < b.last_seen_frame_no) THEN [b EXCEPT !.panicked = TRUE]
    ELSE LET fresh == frame.page_no \notin b.seen_pages IN
         [b EXCEPT !.last_seen_frame_no = frame.frame_no,
                   !.header.start_frame_no = IF frame.frame_no < @ THEN frame.frame_no ELSE @,
                   !.header.end_frame_no = IF frame.frame_no > @ THEN frame.frame_no ELSE @,
                   !.header.size_after = IF frame.frame_no > b.header.end_frame_no
                                         THEN frame.size_after ELSE @,
                   !.header.frame_count = IF fresh THEN @ + 1 ELSE @,
                   !.seen_pages = @ \cup {frame.page_no},
                   !.snapshot_file =
                       IF fresh THEN Append(@, [frame EXCEPT !.size_after = 0]) ELSE @]

\* One iteration of the loop of append_frames.
append_frame(b, frame) ==
    IF b.panicked THEN b
    ELSE IF ~(frame.frame_no < b.last_seen_frame_no) THEN [b EXCEPT !.panicked = TRUE]
    ELSE LET h1 == IF frame.frame_no < b.header.start_frame_no
                   THEN [b.header EXCEPT !.start_frame_no = frame.frame_no]
                   ELSE b.header
             h2 == IF frame.frame_no >= h1.end_frame_no
                   THEN [h1 EXCEPT !.end_frame_no = frame.frame_no,
                                   !.size_after = frame.size_after]
                   ELSE h1
             fresh == frame.page_no \notin b.seen_pages
         IN  [b EXCEPT !.last_seen_frame_no = frame.frame_no,
                       !.header = IF fresh THEN [h2 EXCEPT !.frame_count = @ + 1] ELSE h2,
                       !.seen_pages = @ \cup {frame.page_no},
                       !.snapshot_file =
                           IF fresh THEN Append(@, [frame EXCEPT !.size_after = 0]) ELSE @]

RECURSIVE append_frames(_, _)
append_frames(b, frames) ==
    IF frames = <<>> THEN b
    ELSE append_frames(append_frame(b, Head(frames)), Tail(frames))

\* The file finish() renames into snapshots/, and the tuple it returns.
finish_file(b) ==
    [name |-> format_snapshot_name(b.header.log_id, b.header.start_frame_no,
                                   b.header.end_frame_no),
     header |-> b.header,
     frames |-> b.snapshot_file]

(***************************************************************************)
(* Log files.  A log file holds the frames start_frame_no, start_frame_no  *)
(* + 1, ... of the log stream; its last frame is a commit frame, whose     *)
(* size_after is the size of the database in pages, and the frames before  *)
(* it carry size_after 0.  A log file is named by its path.                *)
(***************************************************************************)
LogFile(path, start_frame_no, pages, size_after) ==
    [path |-> path,
     start_frame_no |-> start_frame_no,
     frames |-> [i \in 1..Len(pages) |->
                    Frame(start_frame_no + i - 1, pages[i],
                          IF i = Len(pages) THEN size_after ELSE 0)]]

PageSeqs(n) == [1..n -> 1..MaxPage]

NoLog == [path |-> 0, start_frame_no |-> 0, frames |-> <<>>]

\* LogFile::into_rev_stream_mut: the frames of the log, last one first.
into_rev_stream_mut(log) == Reverse(log.frames)

\* SnapshotFile::into_stream_mut: the frames of the snapshot in file order.
into_stream_mut(file) == file.frames

(***************************************************************************)
(* The snapshots/ directory: a set of files, at most one per name.         *)
(***************************************************************************)
HasFile(dir, name) == \E f \in dir : f.name = name

FileNamed(dir, name) == CHOOSE f \in dir : f.name = name

\* tokio::fs::rename of a finished temp file to snapshots/<name>
rename_into(dir, file) == {f \in dir : f.name # file.name} \cup {file}

\* tokio::fs::remove_file
remove_file(dir, name) == {f \in dir : f.name # name}

\* perform_compaction up to the rename: the builder after the log's reverse stream
\* was fed into it without the monotonicity assertion, in forward order.
perform_compaction_forward(log) ==
    LET RECURSIVE feed(_, _)
        feed(b, frames) ==
            IF frames = <<>> THEN b
            ELSE feed(append_frame_keep_all(b, Head(frames)), Tail(frames))
    IN  feed(SnapshotBuilder_new(LogId), log.frames)

\* perform_compaction up to the rename: the builder finish() is called on.
perform_compaction(log) ==
    append_frames(SnapshotBuilder_new(LogId), into_rev_stream_mut(log))

(***************************************************************************)
(* pending_snapshots_list: the non-empty logs of to_compact/ in the order  *)
(* the directory lists them, then sorted by header().start_frame_no.       *)
(* (A file of exactly size_of::<LogFileHeader>() bytes holds no frame.)    *)
(***************************************************************************)
\* size == size_of::<LogFileHeader>()
is_empty_log(log) == log.frames = <<>>

\* The files the loop of pending_snapshots_list pushes, in listing order.
RECURSIVE non_empty_logs(_)
non_empty_logs(listing) ==
    IF listing = <<>> THEN <<>>
    ELSE IF is_empty_log(Head(listing)) THEN non_empty_logs(Tail(listing))
    ELSE <<Head(listing)>> \o non_empty_logs(Tail(listing))

\* to_compact/ once pending_snapshots_list has removed the empty logs (line 162).
remove_empty_logs(dir) == {l \in dir : ~is_empty_log(l)}

pending_unsorted(listing) == non_empty_logs(listing)

\* pending_snapshots_list without the test of line 161.
pending_with_empty_logs(listing) ==
    LET keyed == [i \in 1..Len(listing) |->
                     [key |-> listing[i].start_frame_no, val |-> listing[i]]]
        sorted == SortByKey(keyed)
    IN  [i \in 1..Len(sorted) |-> sorted[i].val]

pending_snapshots_list(listing) ==
    LET pushed == non_empty_logs(listing)
        keyed == [i \in 1..Len(pushed) |->
                     [key |-> pushed[i].start_frame_no, val |-> pushed[i]]]
        sorted == SortByKey(keyed)
    IN  [i \in 1..Len(sorted) |-> sorted[i].val]

(***************************************************************************)
(* SnapshotMerger.                                                         *)
(***************************************************************************)
RECURSIVE SumFrameCount(_)
SumFrameCount(entries) ==
    IF entries = <<>> THEN 0
    ELSE Head(entries).frame_count + SumFrameCount(Tail(entries))

\* should_compact with > for >= and >= for >.
should_compact_off_by_one(entries, db_page_count) ==
    \/ SumFrameCount(entries) > SNAPHOT_SPACE_AMPLIFICATION_FACTOR * db_page_count
    \/ Len(entries) >= MAX_SNAPSHOT_NUMBER

should_compact(entries, db_page_count) ==
    \/ SumFrameCount(entries) >= SNAPHOT_SPACE_AMPLIFICATION_FACTOR * db_page_count
    \/ Len(entries) > MAX_SNAPSHOT_NUMBER

\* init_snapshot_info_list on an existing directory listed in the order `listing`.
init_snapshot_info_list(listing) ==
    LET temp == [i \in 1..Len(listing) |->
                    [key |-> listing[i].header.start_frame_no,
                     val |-> [name |-> listing[i].name,
                              frame_count |-> listing[i].header.frame_count]]]
        sorted == SortByKey(temp)
    IN  [i \in 1..Len(sorted) |-> sorted[i].val]

NoJob == [pc |-> "none", snapshots |-> <<>>, inputs |-> <<>>, idx |-> 0, out |-> NoFile]

\* merge_snapshots, lines 348-363: the inputs opened newest first and fed to a builder.
\* `files` are the opened inputs in registry order.
RECURSIVE merge_feed(_, _)
merge_feed(b, files) ==
    IF files = <<>> THEN b
    ELSE merge_feed(append_frames(b, into_stream_mut(Last(files))),
                    SubSeq(files, 1, Len(files) - 1))

\* merge_snapshots without lines 365-374: the header as the builder computed it.
merge_builder_no_override(entries, files) ==
    merge_feed(SnapshotBuilder_new(LogId), files)

\* merge_snapshots, lines 348-374: the builder finish() is called on; panicked when the
\* assertion of append_frames or an unwrap of parse_snapshot_name fails.
merge_builder(entries, files) ==
    LET b == merge_feed(SnapshotBuilder_new(LogId), files)
        first == parse_snapshot_name(entries[1].name)
        last == parse_snapshot_name(Last(entries).name)
    IN  IF b.panicked \/ first.kind # "Some" \/ last.kind # "Some"
        THEN [b EXCEPT !.panicked = TRUE]
        ELSE [b EXCEPT !.header.start_frame_no = first.start,
                       !.header.end_frame_no = last.end,
                       !.header.size_after = Last(files).header.size_after]

(***************************************************************************)
(* Spec: the state after LogCompactor::new on a fresh database directory.  *)
(***************************************************************************)
NoCur == [log |-> NoLog, file |-> NoFile]

NoFound == [kind |-> "none", name |-> FileName(NoId, <<>>, <<>>), frame_no |-> 0]

NoDecision == [called |-> FALSE, snapshots |-> <<>>, db_page_count |-> 0, ret |-> FALSE]

\* The caller is outside LogCompactor::compact.  Inside, `ongoing` is the number of the
\* compaction the worker was in the middle of when the call was made, 0 when none was.
CallerIdle == [pc |-> "idle", ongoing |-> 0]

\* No call of LogCompactor::compact or should_compact is being looked at.
CallsIdle ==
    /\ lpc = CallerIdle
    /\ lret = "none"
    /\ decision = NoDecision

WorkHistEmpty ==
    /\ produced = <<>>
    /\ cbHist = <<>>
    /\ failure = "none"

BuilderIdle ==
    /\ bstream = <<>>
    /\ bfed = <<>>
    /\ builder = SnapshotBuilder_new(LogId)
    /\ bresult = NoFile

Init ==
    /\ toCompact = {}
    /\ snapDirExists = FALSE
    /\ snapshots = {}
    /\ nLogs = 0
    /\ nextFrameNo = 0
    /\ cpc = "next"
    /\ pending = <<>>
    /\ chan = <<>>
    /\ cur = NoCur
    /\ mpc = "init"
    /\ mchan = <<>>
    /\ registry = <<>>
    /\ working = FALSE
    /\ job = NoJob
    /\ regHist = <<>>
    /\ pendingAtNew = {}
    /\ restarts = 0
    /\ WorkHistEmpty
    /\ CallsIdle
    /\ BuilderIdle
    /\ found = NoFound

CompactorAlive == cpc # "exited"
MergerAlive == mpc \in {"init", "loop"}

(***************************************************************************)
(* The logger: it moves a full log to to_compact/ and calls                *)
(* LogCompactor::compact, which blocks while the channel is full and fails *)
(* once the worker has dropped the receiver.                               *)
(***************************************************************************)
NewLog(pages, size_after) == LogFile(nLogs + 1, nextFrameNo, pages, size_after)

\* A channel whose semaphore holds one permit too many.
has_capacity_off_by_one(ch) == Len(ch) <= CompactorChannelCapacity

\* mpsc::channel(8): blocking_send gets a permit while fewer than 8 messages are queued.
has_capacity(ch) == Len(ch) < CompactorChannelCapacity

Compact(n, pages, size_after) ==
    /\ nLogs < MaxLogs
    /\ CompactorAlive
    /\ has_capacity(chan)
    /\ LET log == NewLog(pages, size_after) IN
        /\ toCompact' = toCompact \cup {log}
        /\ chan' = Append(chan, log)
    /\ nLogs' = nLogs + 1
    /\ nextFrameNo' = nextFrameNo + n
    /\ UNCHANGED <<snapDirExists, snapshots, cpc, pending, cur, mergerVars,
                   histVars, workVars, auxVars>>

CompactFails(n, pages, size_after) ==
    /\ nLogs < MaxLogs
    /\ ~CompactorAlive
    /\ toCompact' = toCompact \cup {NewLog(pages, size_after)}
    /\ nLogs' = nLogs + 1
    /\ nextFrameNo' = nextFrameNo + n
    /\ UNCHANGED <<snapDirExists, snapshots, compactorVars, mergerVars,
                   histVars, workVars, auxVars>>

(***************************************************************************)
(* The compactor worker.  compact() is four steps: perform_compaction (up  *)
(* to the rename of finish), the callback, register_snapshot, remove_file. *)
(***************************************************************************)
NextLog == IF pending # <<>> THEN Head(pending) ELSE Head(chan)

PerformCompaction ==
    /\ cpc = "next"
    /\ pending # <<>> \/ chan # <<>>
    /\ LET log == NextLog
           b == perform_compaction(log)
           file == finish_file(b)
       IN  /\ snapDirExists' = TRUE
           /\ IF b.panicked
              THEN /\ cpc' = "exited"
                   /\ cur' = NoCur
                   /\ snapshots' = snapshots
                   /\ failure' = "builder"
                   /\ produced' = produced
              ELSE /\ cpc' = "callback"
                   /\ cur' = [log |-> log, file |-> file]
                   /\ snapshots' = rename_into(snapshots, file)
                   /\ failure' = failure
                   /\ produced' = Append(produced, file.name)
    /\ IF pending # <<>>
       THEN pending' = Tail(pending) /\ chan' = chan
       ELSE chan' = Tail(chan) /\ pending' = pending
    /\ UNCHANGED <<toCompact, loggerVars, mergerVars, histVars, cbHist, auxVars>>

\* perform_compaction returns an I/O error (create_dir_all, the temp file, a write, the
\* rename): nothing is renamed in, and compact() bails at line 142.
PerformCompactionFails(created) ==
    /\ cpc = "next"
    /\ pending # <<>> \/ chan # <<>>
    /\ snapDirExists' = (snapDirExists \/ created)
    /\ cpc' = "exited"
    /\ cur' = NoCur
    /\ failure' = "builder"
    /\ IF pending # <<>>
       THEN pending' = Tail(pending) /\ chan' = chan
       ELSE chan' = Tail(chan) /\ pending' = pending
    /\ UNCHANGED <<toCompact, snapshots, loggerVars, mergerVars, histVars, produced, cbHist,
                   auxVars>>

\* compact() without lines 125-128: the callback is not invoked.
Callback_skipped(ok) ==
    /\ cpc = "callback"
    /\ cpc' = "register"
    /\ UNCHANGED <<diskVars, loggerVars, pending, chan, cur, mergerVars, histVars,
                   workVars, auxVars>>

\* A worker that logs the error of the callback and goes on with the next log.
Callback_continues(ok) ==
    /\ cpc = "callback"
    /\ cpc' = IF ok THEN "register" ELSE "next"
    /\ cur' = IF ok THEN cur ELSE NoCur
    /\ cbHist' = Append(cbHist, [path |-> cur.file.name, ok |-> ok])
    /\ failure' = IF ok THEN failure ELSE "callback"
    /\ UNCHANGED <<diskVars, loggerVars, pending, chan, mergerVars, histVars,
                   produced, auxVars>>

Callback(ok) ==
    /\ cpc = "callback"
    /\ cpc' = IF ok THEN "register" ELSE "exited"
    /\ cur' = IF ok THEN cur ELSE NoCur
    /\ cbHist' = Append(cbHist, [path |-> cur.file.name, ok |-> ok])
    /\ failure' = IF ok THEN failure ELSE "callback"
    /\ UNCHANGED <<diskVars, loggerVars, pending, chan, mergerVars, histVars,
                   produced, auxVars>>

RegisterSnapshot ==
    /\ cpc = "register"
    /\ MergerAlive
    /\ Len(mchan) < MergerChannelCapacity
    /\ mchan' = Append(mchan, [name |-> cur.file.name,
                               frame_count |-> cur.file.header.frame_count,
                               db_page_count |-> cur.file.header.size_after])
    /\ regHist' = Append(regHist, [path |-> cur.log.path,
                                   start_frame_no |-> cur.log.start_frame_no])
    /\ cpc' = "remove"
    /\ UNCHANGED <<diskVars, loggerVars, pending, chan, cur, mpc, registry, working, job,
                   pendingAtNew, restarts, workVars, auxVars>>

\* compact() removing the log before it looks at the result of register_snapshot.
RegisterSnapshotFails_removes ==
    /\ cpc = "register"
    /\ ~MergerAlive
    /\ toCompact' = {l \in toCompact : l.path # cur.log.path}
    /\ cpc' = "exited"
    /\ cur' = NoCur
    /\ failure' = "register"
    /\ UNCHANGED <<snapDirExists, snapshots, loggerVars, pending, chan, mergerVars, histVars,
                   produced, cbHist, auxVars>>

\* A worker that ignores the failed registration and goes on to remove the log.
RegisterSnapshotFails_continues ==
    /\ cpc = "register"
    /\ ~MergerAlive
    /\ cpc' = "remove"
    /\ UNCHANGED <<diskVars, loggerVars, pending, chan, cur, mergerVars, histVars,
                   workVars, auxVars>>

RegisterSnapshotFails ==
    /\ cpc = "register"
    /\ ~MergerAlive
    /\ cpc' = "exited"
    /\ cur' = NoCur
    /\ failure' = "register"
    /\ UNCHANGED <<diskVars, loggerVars, pending, chan, mergerVars, histVars,
                   produced, cbHist, auxVars>>

RemoveLog ==
    /\ cpc = "remove"
    /\ toCompact' = {l \in toCompact : l.path # cur.log.path}
    /\ cpc' = "next"
    /\ cur' = NoCur
    /\ UNCHANGED <<snapDirExists, snapshots, loggerVars, pending, chan, mergerVars,
                   histVars, workVars, auxVars>>

\* std::fs::remove_file returns an error: compact() bails at line 138.
RemoveLogFails ==
    /\ cpc = "remove"
    /\ cpc' = "exited"
    /\ cur' = NoCur
    /\ failure' = "remove"
    /\ UNCHANGED <<diskVars, loggerVars, pending, chan, mergerVars, histVars, produced,
                   cbHist, auxVars>>

(***************************************************************************)
(* The merger task.                                                        *)
(***************************************************************************)
\* line 278: the registry read from the directory, or empty when it is missing
MergerInit(listing) ==
    /\ mpc = "init"
    /\ registry' = IF snapDirExists THEN init_snapshot_info_list(listing) ELSE <<>>
    /\ mpc' = "loop"
    /\ UNCHANGED <<diskVars, loggerVars, compactorVars, mchan, working, job, histVars,
                   workVars, auxVars>>

\* A receive that tests only should_compact and starts a job over a running one.
MergerRecv_ignores_working ==
    /\ mpc = "loop"
    /\ mchan # <<>>
    /\ LET msg == Head(mchan)
           pushed == Append(registry, [name |-> msg.name, frame_count |-> msg.frame_count])
       IN  IF should_compact(pushed, msg.db_page_count)
           THEN /\ registry' = <<>>
                /\ job' = [NoJob EXCEPT !.pc = "build", !.snapshots = pushed]
                /\ working' = TRUE
           ELSE /\ registry' = pushed
                /\ UNCHANGED <<job, working>>
    /\ mchan' = Tail(mchan)
    /\ UNCHANGED <<diskVars, loggerVars, compactorVars, mpc, histVars, workVars, auxVars>>

\* lines 284-296: a registration is received
MergerRecv ==
    /\ mpc = "loop"
    /\ mchan # <<>>
    /\ LET msg == Head(mchan)
           pushed == Append(registry, [name |-> msg.name, frame_count |-> msg.frame_count])
       IN  IF ~working /\ should_compact(pushed, msg.db_page_count)
           THEN /\ registry' = <<>>
                /\ job' = [NoJob EXCEPT !.pc = "build", !.snapshots = pushed]
                /\ working' = TRUE
           ELSE /\ registry' = pushed
                /\ UNCHANGED <<job, working>>
    /\ mchan' = Tail(mchan)
    /\ UNCHANGED <<diskVars, loggerVars, compactorVars, mpc, histVars, workVars, auxVars>>

\* merge_snapshots up to the rename of finish (lines 348-376)
MergeBuild ==
    /\ mpc = "loop"
    /\ working
    /\ job.pc = "build"
    /\ snapDirExists' = TRUE
    /\ IF \E i \in 1..Len(job.snapshots) : ~HasFile(snapshots, job.snapshots[i].name)
       THEN \* SnapshotFile::open fails
            /\ mpc' = "failed"
            /\ UNCHANGED <<snapshots, job>>
       ELSE LET files == [i \in 1..Len(job.snapshots) |->
                             FileNamed(snapshots, job.snapshots[i].name)]
                b == merge_builder(job.snapshots, files)
            IN  IF b.panicked
                THEN /\ mpc' = "failed"
                     /\ UNCHANGED <<snapshots, job>>
                ELSE /\ snapshots' = rename_into(snapshots, finish_file(b))
                     /\ job' = [job EXCEPT !.pc = "unlink", !.inputs = files, !.idx = 1,
                                           !.out = finish_file(b)]
                     /\ mpc' = mpc
    /\ UNCHANGED <<toCompact, loggerVars, compactorVars, mchan, registry, working,
                   histVars, workVars, auxVars>>

\* merge_snapshots returns an I/O error before the rename (the temp file, a read of an
\* input, a write): the `?` of line 300 ends the merger task.
MergeBuildFails ==
    /\ mpc = "loop"
    /\ working
    /\ job.pc = "build"
    /\ mpc' = "failed"
    /\ UNCHANGED <<diskVars, loggerVars, compactorVars, mchan, registry, working, job,
                   histVars, workVars, auxVars>>

\* merge_snapshots, lines 378-380: one input is unlinked
MergeUnlink ==
    /\ mpc = "loop"
    /\ working
    /\ job.pc = "unlink"
    /\ LET name == job.snapshots[job.idx].name IN
        IF HasFile(snapshots, name)
        THEN /\ snapshots' = remove_file(snapshots, name)
             /\ job' = IF job.idx = Len(job.snapshots)
                       THEN [job EXCEPT !.pc = "done"]
                       ELSE [job EXCEPT !.idx = @ + 1]
             /\ mpc' = mpc
        ELSE /\ mpc' = "failed"
             /\ UNCHANGED <<snapshots, job>>
    /\ UNCHANGED <<toCompact, snapDirExists, loggerVars, compactorVars, mchan, registry,
                   working, histVars, workVars, auxVars>>

\* lines 297-303: the job has returned Ok((name, frame_count))
JobDone ==
    /\ mpc = "loop"
    /\ working
    /\ job.pc = "done"
    /\ working' = FALSE
    /\ registry' = <<[name |-> job.out.name, frame_count |-> job.out.header.frame_count]>>
                   \o registry
    /\ job' = NoJob
    /\ UNCHANGED <<diskVars, loggerVars, compactorVars, mpc, mchan, histVars,
                   workVars, auxVars>>

\* An `else` branch taken without regard to the job branch of the select.
MergerExit_mid_job ==
    /\ mpc = "loop"
    /\ ~CompactorAlive
    /\ mchan = <<>>
    /\ mpc' = "done"
    /\ UNCHANGED <<diskVars, loggerVars, compactorVars, mchan, registry, working, job,
                   histVars, workVars, auxVars>>

\* line 304: the channel is closed and empty and no job is running
MergerExit ==
    /\ mpc = "loop"
    /\ ~CompactorAlive
    /\ mchan = <<>>
    /\ ~working
    /\ mpc' = "done"
    /\ UNCHANGED <<diskVars, loggerVars, compactorVars, mchan, registry, working, job,
                   histVars, workVars, auxVars>>

(***************************************************************************)
(* The process is killed and started again: the disk is kept,              *)
(* LogCompactor::new gathers the pending logs and spawns both tasks.       *)
(***************************************************************************)
Restart(listing) ==
    /\ restarts < MaxRestarts
    /\ restarts' = restarts + 1
    /\ pending' = pending_snapshots_list(listing)
    /\ toCompact' = remove_empty_logs(toCompact)
    /\ pendingAtNew' = {pending'[i].path : i \in DOMAIN pending'}
    /\ cpc' = "next"
    /\ chan' = <<>>
    /\ cur' = NoCur
    /\ mpc' = "init"
    /\ mchan' = <<>>
    /\ registry' = <<>>
    /\ working' = FALSE
    /\ job' = NoJob
    /\ regHist' = <<>>
    /\ produced' = <<>>
    /\ cbHist' = <<>>
    /\ failure' = "none"
    /\ UNCHANGED <<snapDirExists, snapshots, loggerVars, auxVars>>

Next ==
    \/ \E n \in 1..MaxLogFrames : \E pages \in PageSeqs(n) : \E sz \in 1..MaxSizeAfter :
          Compact(n, pages, sz)
    \/ \E n \in 1..MaxLogFrames : \E pages \in PageSeqs(n) : \E sz \in 1..MaxSizeAfter :
          CompactFails(n, pages, sz)
    \/ PerformCompaction
    \/ \E created \in BOOLEAN : PerformCompactionFails(created)
    \/ \E ok \in BOOLEAN : Callback(ok)
    \/ RegisterSnapshot
    \/ RegisterSnapshotFails
    \/ RemoveLog
    \/ RemoveLogFails
    \/ \E listing \in Enumerations(snapshots) : MergerInit(listing)
    \/ MergerRecv
    \/ MergeBuild
    \/ MergeBuildFails
    \/ MergeUnlink
    \/ JobDone
    \/ MergerExit
    \/ \E listing \in Enumerations(toCompact) : Restart(listing)

Spec == Init /\ [][Next]_vars

(***************************************************************************)
(* SpecBuilder: a SnapshotBuilder is fed one stream of frames, drawn from  *)
(* the streams of strictly decreasing frame_no and their reversals, and    *)
(* finished.                                                               *)
(***************************************************************************)
StreamFrames(frame_no) ==
    {Frame(frame_no, p, sz) : p \in 1..MaxPage, sz \in 0..MaxSizeAfter}

\* The strictly decreasing streams whose frame numbers are at most `top`.
RECURSIVE DecreasingStreams(_)
DecreasingStreams(top) ==
    IF top < 0 THEN {<<>>}
    ELSE LET rest == DecreasingStreams(top - 1)
         IN  rest \cup {<<f>> \o s : f \in StreamFrames(top), s \in rest}

InitBuilder ==
    /\ toCompact = {}
    /\ snapDirExists = FALSE
    /\ snapshots = {}
    /\ nLogs = 0
    /\ nextFrameNo = 0
    /\ cpc = "next"
    /\ pending = <<>>
    /\ chan = <<>>
    /\ cur = NoCur
    /\ mpc = "init"
    /\ mchan = <<>>
    /\ registry = <<>>
    /\ working = FALSE
    /\ job = NoJob
    /\ regHist = <<>>
    /\ pendingAtNew = {}
    /\ restarts = 0
    /\ WorkHistEmpty
    /\ CallsIdle
    /\ found = NoFound
    /\ \E s \in DecreasingStreams(MaxStreamFrameNo) : bstream \in {s, Reverse(s)}
    /\ bfed = <<>>
    /\ builder = SnapshotBuilder_new(LogId)
    /\ bresult = NoFile

nonBuilderVars ==
    <<diskVars, loggerVars, compactorVars, mergerVars, histVars, workVars, callVars,
      decision, found>>

\* one iteration of `while let Some(frame) = frames.next().await`
AppendFrame ==
    /\ bstream # <<>>
    /\ ~builder.panicked
    /\ bresult = NoFile
    /\ builder' = append_frame(builder, Head(bstream))
    /\ bfed' = Append(bfed, Head(bstream))
    /\ bstream' = Tail(bstream)
    /\ UNCHANGED <<bresult, nonBuilderVars>>

Finish ==
    /\ bstream = <<>>
    /\ ~builder.panicked
    /\ bresult = NoFile
    /\ bresult' = finish_file(builder)
    /\ UNCHANGED <<bstream, bfed, builder, nonBuilderVars>>

NextBuilder == AppendFrame \/ Finish

SpecBuilder == InitBuilder /\ [][NextBuilder]_vars

(***************************************************************************)
(* SpecLookup: find_snapshot_file on a snapshots/ directory that is        *)
(* missing or holds up to MaxDirFiles files, whose names are canonical     *)
(* names of ranges within 0..MaxLookupFrameNo or foreign names.            *)
(***************************************************************************)
\* A number too long for u64.
OverflowDigits == to_string(U64_MAX) \o <<0>>

CanonicalNames ==
    {format_snapshot_name(LogId, a, b) : a, b \in 0..MaxLookupFrameNo}

\* Names that match nothing, and names the matcher accepts with an empty number, an
\* overflowing number or an id that is no uuid.
UnmatchedNames == {FileName(NoId, <<1>>, <<2>>)}
LooseNames ==
    {FileName(LogId, <<>>, <<2>>), FileName(LogId, <<0>>, OverflowDigits),
     FileName(WordId, <<0>>, <<3>>)}

LookupNames == CanonicalNames \cup UnmatchedNames \cup LooseNames

\* A file of the directory; lookup reads nothing but its name.
NamedFile(name) == [NoFile EXCEPT !.name = name]

\* find_snapshot_file over the names in the order the directory lists them.
RECURSIVE find_in_listing(_, _)
find_in_listing(listing, frame_no) ==
    IF listing = <<>> THEN [kind |-> "None", name |-> NoFile.name]
    ELSE LET parsed == parse_snapshot_name(Head(listing).name) IN
         IF parsed.kind = "panic" THEN [kind |-> "panic", name |-> Head(listing).name]
         ELSE IF parsed.kind = "Some" /\ parsed.start <= frame_no /\ frame_no <= parsed.end
              THEN [kind |-> "Some", name |-> Head(listing).name]
         ELSE find_in_listing(Tail(listing), frame_no)

\* find_snapshot_file: read_dir fails on a missing directory and the error propagates.
find_snapshot_file(dirExists, listing, frame_no) ==
    IF ~dirExists THEN [kind |-> "Err", name |-> NoFile.name]
    ELSE find_in_listing(listing, frame_no)

InitLookup ==
    /\ toCompact = {}
    /\ snapDirExists \in BOOLEAN
    /\ \E names \in SUBSET LookupNames :
          /\ Cardinality(names) <= MaxDirFiles
          /\ snapDirExists \/ names = {}
          /\ snapshots = {NamedFile(n) : n \in names}
    /\ nLogs = 0
    /\ nextFrameNo = 0
    /\ cpc = "next"
    /\ pending = <<>>
    /\ chan = <<>>
    /\ cur = NoCur
    /\ mpc = "init"
    /\ mchan = <<>>
    /\ registry = <<>>
    /\ working = FALSE
    /\ job = NoJob
    /\ regHist = <<>>
    /\ pendingAtNew = {}
    /\ restarts = 0
    /\ WorkHistEmpty
    /\ CallsIdle
    /\ BuilderIdle
    /\ found = NoFound

FindSnapshotFile(frame_no, listing) ==
    /\ LET ret == find_snapshot_file(snapDirExists, listing, frame_no) IN
        found' = [kind |-> ret.kind, name |-> ret.name, frame_no |-> frame_no]
    /\ UNCHANGED <<diskVars, loggerVars, compactorVars, mergerVars, histVars, workVars,
                   callVars, decision, builderVars>>

NextLookup ==
    \E frame_no \in 0..MaxLookupFrameNo + 1 : \E listing \in Enumerations(snapshots) :
        FindSnapshotFile(frame_no, listing)

SpecLookup == InitLookup /\ [][NextLookup]_vars

(***************************************************************************)
(* SpecPending: LogCompactor::new on a database directory in which an      *)
(* earlier process left logs in to_compact/: logs with frames, one after   *)
(* the other in the log stream, and header-only logs that an interrupted   *)
(* rotation left behind.  No log is submitted afterwards.                  *)
(***************************************************************************)
\* The runs of k logs that follow one another from frame `start`, as paths path, path+1...
RECURSIVE LogRuns(_, _, _)
LogRuns(k, path, start) ==
    IF k = 0 THEN {<<>>}
    ELSE UNION {UNION {UNION {
            {<<LogFile(path, start, pages, sz)>> \o r : r \in LogRuns(k - 1, path + 1, start + n)} :
            sz \in 1..MaxSizeAfter} : pages \in PageSeqs(n)} : n \in 1..MaxLogFrames}

EmptyLog(path, start) == LogFile(path, start, <<>>, 0)

InitPending ==
    /\ \E k \in 0..MaxPendingLogs : \E e \in 0..MaxEmptyLogs : \E run \in LogRuns(k, 1, 0) :
          LET next == IF k = 0 THEN 0 ELSE Last(Last(run).frames).frame_no + 1 IN
          /\ toCompact = {run[i] : i \in 1..k} \cup {EmptyLog(k + j, next) : j \in 1..e}
          /\ nLogs = k + e
          /\ nextFrameNo = next
    /\ snapDirExists = FALSE
    /\ snapshots = {}
    /\ cpc = "exited"
    /\ pending = <<>>
    /\ chan = <<>>
    /\ cur = NoCur
    /\ mpc = "done"
    /\ mchan = <<>>
    /\ registry = <<>>
    /\ working = FALSE
    /\ job = NoJob
    /\ regHist = <<>>
    /\ pendingAtNew = {}
    /\ restarts = 0
    /\ WorkHistEmpty
    /\ CallsIdle
    /\ BuilderIdle
    /\ found = NoFound

NextPending ==
    \/ \E listing \in Enumerations(toCompact) : Restart(listing)
    \/ PerformCompaction
    \/ \E created \in BOOLEAN : PerformCompactionFails(created)
    \/ \E ok \in BOOLEAN : Callback(ok)
    \/ RegisterSnapshot
    \/ RegisterSnapshotFails
    \/ RemoveLog
    \/ RemoveLogFails
    \/ \E listing \in Enumerations(snapshots) : MergerInit(listing)
    \/ MergerRecv
    \/ MergeBuild
    \/ MergeBuildFails
    \/ MergeUnlink
    \/ JobDone
    \/ MergerExit

SpecPending == InitPending /\ [][NextPending]_vars

(***************************************************************************)
(* SpecChannel: the caller of LogCompactor::compact, the worker and the    *)
(* merger, with the call split into its start and its return.  Every log   *)
(* holds one frame of page 1, so that up to MaxSubmits logs are submitted. *)
(* It starts on a fresh database directory once the merger has found no    *)
(* snapshots/ directory and entered its loop with an empty registry.       *)
(***************************************************************************)
InitChannel ==
    /\ toCompact = {}
    /\ snapDirExists = FALSE
    /\ snapshots = {}
    /\ nLogs = 0
    /\ nextFrameNo = 0
    /\ cpc = "next"
    /\ pending = <<>>
    /\ chan = <<>>
    /\ cur = NoCur
    /\ mpc = "loop"
    /\ mchan = <<>>
    /\ registry = <<>>
    /\ working = FALSE
    /\ job = NoJob
    /\ regHist = <<>>
    /\ pendingAtNew = {}
    /\ restarts = 0
    /\ WorkHistEmpty
    /\ CallsIdle
    /\ BuilderIdle
    /\ found = NoFound

WorkerMidCompaction == cpc \in {"callback", "register", "remove"}

\* The caller has moved a log to to_compact/ and enters LogCompactor::compact.
CompactCallUpTo(max) ==
    /\ lpc.pc = "idle"
    /\ nLogs < max
    /\ toCompact' = toCompact \cup {NewLog(<<1>>, 1)}
    /\ nLogs' = nLogs + 1
    /\ nextFrameNo' = nextFrameNo + 1
    /\ lpc' = [pc |-> "sending",
               ongoing |-> IF WorkerMidCompaction THEN Len(produced) ELSE 0]
    /\ lret' = "none"
    /\ UNCHANGED <<snapDirExists, snapshots, compactorVars, mergerVars, histVars, workVars,
                   decision, builderVars, found>>

CompactCall == CompactCallUpTo(MaxSubmits)

SubmittedLog == CHOOSE l \in toCompact : l.path = nLogs

\* A caller that gives up when the channel is full, as try_send would.
CompactReturnsErr_when_full ==
    /\ lpc.pc = "sending"
    /\ ~CompactorAlive \/ ~has_capacity(chan)
    /\ lpc' = CallerIdle
    /\ lret' = "Err"
    /\ UNCHANGED <<diskVars, loggerVars, compactorVars, mergerVars, histVars, workVars,
                   decision, builderVars, found>>

\* blocking_send returns Ok: the message is queued.
CompactReturnsOk ==
    /\ lpc.pc = "sending"
    /\ CompactorAlive
    /\ has_capacity(chan)
    /\ chan' = Append(chan, SubmittedLog)
    /\ lpc' = CallerIdle
    /\ lret' = "Ok"
    /\ UNCHANGED <<diskVars, loggerVars, cpc, pending, cur, mergerVars, histVars, workVars,
                   decision, builderVars, found>>

\* blocking_send returns Err: the worker has dropped the receiver.
CompactReturnsErr ==
    /\ lpc.pc = "sending"
    /\ ~CompactorAlive
    /\ lpc' = CallerIdle
    /\ lret' = "Err"
    /\ UNCHANGED <<diskVars, loggerVars, compactorVars, mergerVars, histVars, workVars,
                   decision, builderVars, found>>

NextChannel ==
    \/ CompactCall
    \/ CompactReturnsOk
    \/ CompactReturnsErr
    \/ PerformCompaction
    \/ \E created \in BOOLEAN : PerformCompactionFails(created)
    \/ \E ok \in BOOLEAN : Callback(ok)
    \/ RegisterSnapshot
    \/ RegisterSnapshotFails
    \/ RemoveLog
    \/ RemoveLogFails
    \/ MergerRecv
    \/ MergeBuild
    \/ MergeBuildFails
    \/ MergeUnlink
    \/ JobDone
    \/ MergerExit

SpecChannel == InitChannel /\ [][NextChannel]_vars

\* The steps of the worker task and of the merger task.
WorkerStep ==
    \/ PerformCompaction
    \/ \E created \in BOOLEAN : PerformCompactionFails(created)
    \/ \E ok \in BOOLEAN : Callback(ok)
    \/ RegisterSnapshot
    \/ RegisterSnapshotFails
    \/ RemoveLog
    \/ RemoveLogFails

MergerStep ==
    \/ MergerRecv
    \/ MergeBuild
    \/ MergeBuildFails
    \/ MergeUnlink
    \/ JobDone
    \/ MergerExit

(***************************************************************************)
(* SpecEmptyLog: as Spec, with logs of at most one frame, and with logs    *)
(* that carry no frame among those handed to LogCompactor::compact.        *)
(***************************************************************************)
NextEmptyLog ==
    \/ \E n \in 0..1 : \E pages \in PageSeqs(n) :
          Compact(n, pages, IF n = 0 THEN 0 ELSE 1)
    \/ \E n \in 0..1 : \E pages \in PageSeqs(n) :
          CompactFails(n, pages, IF n = 0 THEN 0 ELSE 1)
    \/ PerformCompaction
    \/ \E created \in BOOLEAN : PerformCompactionFails(created)
    \/ \E ok \in BOOLEAN : Callback(ok)
    \/ RegisterSnapshot
    \/ RegisterSnapshotFails
    \/ RemoveLog
    \/ RemoveLogFails
    \/ \E listing \in Enumerations(snapshots) : MergerInit(listing)
    \/ MergerRecv
    \/ MergeBuild
    \/ MergeBuildFails
    \/ MergeUnlink
    \/ JobDone
    \/ MergerExit
    \/ \E listing \in Enumerations(toCompact) : Restart(listing)

SpecEmptyLog == Init /\ [][NextEmptyLog]_vars

(***************************************************************************)
(* SpecShould: should_compact on registries drawn from a bounded set: up   *)
(* to MaxShouldEntries entries of any frame_count followed by none, or by  *)
(* about MAX_SNAPSHOT_NUMBER entries of one frame_count.                   *)
(***************************************************************************)
RegistryEntry(i, frame_count) ==
    [name |-> format_snapshot_name(LogId, i, i), frame_count |-> frame_count]

ShouldRegistries ==
    {[i \in 1..Len(counts) + k |->
         RegistryEntry(i, IF i <= Len(counts) THEN counts[i] ELSE c)] :
       counts \in UNION {[1..n -> 0..MaxShouldFrames] : n \in 0..MaxShouldEntries},
       k \in {0} \cup (MAX_SNAPSHOT_NUMBER - 2..MAX_SNAPSHOT_NUMBER + 1),
       c \in 0..1}

\* One call is looked at in a behaviour; the function keeps no state between calls.
ShouldCompact(entries, db_page_count) ==
    /\ ~decision.called
    /\ decision' = [called |-> TRUE, snapshots |-> entries, db_page_count |-> db_page_count,
                    ret |-> should_compact(entries, db_page_count)]
    /\ UNCHANGED <<diskVars, loggerVars, compactorVars, mergerVars, histVars, workVars,
                   callVars, builderVars, found>>

NextShould ==
    \E entries \in ShouldRegistries : \E db_page_count \in 0..MaxDbPageCount :
        ShouldCompact(entries, db_page_count)

SpecShould == Init /\ [][NextShould]_vars

(***************************************************************************)
(* Properties.                                                             *)
(***************************************************************************)
PagesOf(frames) == {frames[i].page_no : i \in DOMAIN frames}

FrameNosOf(frames) == {frames[i].frame_no : i \in DOMAIN frames}

StrictlyDecreasing(frames) ==
    \A i \in 1..Len(frames) - 1 : frames[i].frame_no > frames[i + 1].frame_no

\* The highest frame_no among the frames of `frames` that carry page `p`.
NewestFrameNo(frames, p) ==
    CHOOSE n \in FrameNosOf(frames) :
        /\ \E i \in DOMAIN frames : frames[i].frame_no = n /\ frames[i].page_no = p
        /\ \A i \in DOMAIN frames : frames[i].page_no = p => frames[i].frame_no <= n

\* `kept` holds exactly one frame for each page of `fed`, the one of highest frame_no.
NewestVersionPerPage(kept, fed) ==
    /\ PagesOf(kept) = PagesOf(fed)
    /\ \A i, j \in DOMAIN kept : kept[i].page_no = kept[j].page_no => i = j
    /\ \A i \in DOMAIN kept : kept[i].frame_no = NewestFrameNo(fed, kept[i].page_no)

RECURSIVE Concat(_)
Concat(seqs) == IF seqs = <<>> THEN <<>> ELSE Head(seqs) \o Concat(Tail(seqs))

\* The frame numbers within the name-encoded range of some file of snapshots/.
MaxFrameNo == MaxLogs * MaxLogFrames
NameRange(name) ==
    LET parsed == parse_snapshot_name(name) IN
    IF parsed.kind = "Some" THEN parsed.start..parsed.end ELSE {}
Covered == UNION {NameRange(f.name) : f \in snapshots} \cap (0..MaxFrameNo)

\* C1: the logs are registered with the merger in the order of their start_frame_no,
\* and a log submitted through compact() is registered only after every log that was
\* pending in to_compact/ at LogCompactor::new has been registered.
C1_PendingFirst ==
    /\ \A i, j \in DOMAIN regHist :
          i < j => regHist[i].start_frame_no < regHist[j].start_frame_no
    /\ \A j \in DOMAIN regHist :
          regHist[j].path \notin pendingAtNew
             => \A p \in pendingAtNew : \E i \in 1..j - 1 : regHist[i].path = p

\* Two pending logs and a log submitted through compact() are all registered.
C1_Witness ==
    /\ Cardinality(pendingAtNew) >= 2
    /\ Len(regHist) = Cardinality(pendingAtNew) + 1
    /\ Last(regHist).path \notin pendingAtNew

\* The submitted log is in the channel before the first pending log is compacted.
C1_WitnessEnqueuedFirst ==
    /\ Cardinality(pendingAtNew) >= 2
    /\ Len(pending) = Cardinality(pendingAtNew)
    /\ chan # <<>>

\* C2: the snapshot finished from a stream of strictly decreasing frame_no holds exactly
\* one frame for each page_no of the stream, the one of highest frame_no.
C2_NewestVersionPerPage ==
    (bresult # NoFile /\ StrictlyDecreasing(bfed))
        => /\ NewestVersionPerPage(bresult.frames, bfed)
           /\ bresult.header.frame_count = Len(bresult.frames)

\* A finished stream of three frames in which a page occurs twice.
C2_Witness ==
    /\ bresult # NoFile
    /\ StrictlyDecreasing(bfed)
    /\ Len(bfed) >= 3
    /\ Cardinality(PagesOf(bfed)) < Len(bfed)
    /\ Cardinality(PagesOf(bfed)) >= 2

\* C3: a frame number within the range of some file of snapshots/ stays within the
\* range of some file of snapshots/ in every later state.
C3_CoverageKept == [][Covered \subseteq Covered']_vars

\* C4: the snapshot perform_compaction makes of a log with frames a..b is named
\* log_id-a-b.snap and its header has start_frame_no = a, end_frame_no = b, frame_count
\* = the number of distinct page_no of the log, size_after = the size_after of frame b.
C4_CompactionHeader ==
    cpc = "callback" =>
        LET frames == cur.log.frames
            a == frames[1].frame_no
            b == Last(frames).frame_no
            h == cur.file.header
        IN  /\ cur.file.name.id = LogId
            /\ parse_snapshot_name(cur.file.name) = [kind |-> "Some", start |-> a, end |-> b]
            /\ h.log_id = LogId
            /\ h.start_frame_no = a
            /\ h.end_frame_no = b
            /\ h.frame_count = Cardinality(PagesOf(frames))
            /\ h.size_after = Last(frames).size_after

\* A log of two frames on one page has been compacted, and one of a single frame 0.
C4_Witness ==
    /\ cpc = "callback"
    /\ Len(cur.log.frames) = 2
    /\ Cardinality(PagesOf(cur.log.frames)) = 1
    /\ cur.log.start_frame_no > 0

C4_WitnessFrameZero ==
    /\ cpc = "callback"
    /\ Len(cur.log.frames) = 1
    /\ cur.log.start_frame_no = 0

C6_FramesDecreasing == \A f \in snapshots : StrictlyDecreasing(f.frames)

\* snapshots/ holds a merged snapshot of two frames or more.
C6_Witness ==
    /\ job.pc = "unlink"
    /\ job.out \in snapshots
    /\ Len(job.out.frames) >= 2
    /\ \E f \in snapshots : f # job.out /\ Len(f.frames) >= 2

\* A file of snapshots/ whose name-encoded range contains frame_no.
Covers(name, frame_no) == frame_no \in NameRange(name)

\* C7: find_snapshot_file returns a file of snapshots/ whose name-encoded range contains
\* the frame number whenever snapshots/ holds such a file, and None when it holds none.
C7_LookupFindsCoveringFile ==
    found.kind # "none" =>
        IF \E f \in snapshots : Covers(f.name, found.frame_no)
        THEN /\ found.kind = "Some"
             /\ HasFile(snapshots, found.name)
             /\ Covers(found.name, found.frame_no)
        ELSE found.kind = "None"

\* What the lookup does keep of C7: on a directory that exists and whose names are
\* canonical or left unmatched, it returns a covering file when there is one and None
\* when there is none.
LookupOnWellFormedDirectory ==
    (/\ found.kind # "none"
     /\ snapDirExists
     /\ \A f \in snapshots : parse_snapshot_name(f.name).kind # "panic")
        => IF \E f \in snapshots : Covers(f.name, found.frame_no)
           THEN /\ found.kind = "Some"
                /\ HasFile(snapshots, found.name)
                /\ Covers(found.name, found.frame_no)
           ELSE found.kind = "None"

\* C8: when snapshots/ does not exist, find_snapshot_file returns None.
C8_MissingDirectoryIsNone ==
    (found.kind # "none" /\ ~snapDirExists) => found.kind = "None"

\* C9: a file of snapshots/ with an ill-formed name is skipped: the lookup neither
\* panics nor fails on it.
C9_IllFormedNameSkipped ==
    (found.kind # "none" /\ snapDirExists) => found.kind \in {"Some", "None"}

\* C10: the name-encoded ranges of the files of snapshots/ are pairwise disjoint.
C10_RangesDisjoint ==
    \A f, g \in snapshots : f.name # g.name => NameRange(f.name) \cap NameRange(g.name) = {}

\* A step in which finish() of a compaction, or of a merge, renames its file in.
CompactionRenames == cpc = "next" /\ cpc' = "callback"
MergeRenames == job.pc = "build" /\ job'.pc = "unlink"

\* C11: writers never overwrite: every rename by finish(), for a compaction or a merge,
\* targets a name that snapshots/ does not hold at that moment.
C11_NoOverwrite ==
    [][/\ CompactionRenames => ~HasFile(snapshots, cur'.file.name)
       /\ MergeRenames => ~HasFile(snapshots, job'.out.name)]_vars

\* The frame_count of all the entries together, added up from the last entry.
RECURSIVE TotalFrames(_, _)
TotalFrames(entries, n) ==
    IF n = 0 THEN 0 ELSE TotalFrames(entries, n - 1) + entries[n].frame_count

\* C12: should_compact(snapshots, db_page_count) is true exactly when the sum of the
\* entries' frame_count is >= 2 * db_page_count or there are more than 32 entries.
C12_ShouldCompactThreshold ==
    decision.called =>
        (decision.ret <=>
            \/ TotalFrames(decision.snapshots, Len(decision.snapshots))
                  >= 2 * decision.db_page_count
            \/ Len(decision.snapshots) > 32)

\* A registry of one entry and a db_page_count of 0.
C12_Witness ==
    /\ decision.called
    /\ Len(decision.snapshots) = 1
    /\ decision.db_page_count = 0
    /\ decision.ret

\* 33 entries whose frames are fewer than twice the pages, and 32 such entries.
C12_WitnessTooMany ==
    /\ decision.called
    /\ Len(decision.snapshots) = 33
    /\ TotalFrames(decision.snapshots, 33) < 2 * decision.db_page_count
    /\ decision.ret

C12_WitnessNotYet ==
    /\ decision.called
    /\ Len(decision.snapshots) = 32
    /\ TotalFrames(decision.snapshots, 32) = 2 * decision.db_page_count - 1
    /\ ~decision.ret

\* The name finish() would give the snapshot of a log without frames.
EmptySnapshotName == format_snapshot_name(LogId, U64_MAX, 0)

C13_WitnessAllDone ==
    /\ restarts = 1
    /\ toCompact = {}
    /\ nLogs = 3
    /\ Len(regHist) = 2
    /\ cpc = "next"

\* C14: the callback is invoked exactly once for each snapshot perform_compaction
\* produces, with the path of that snapshot, before the next log is compacted, and it
\* is not invoked for the snapshots the merger produces.
C14_CallbackOncePerCompaction ==
    /\ Len(cbHist) = IF cpc = "callback" THEN Len(produced) - 1 ELSE Len(produced)
    /\ \A i \in DOMAIN cbHist : cbHist[i].path = produced[i]
    /\ cpc = "callback" => Last(produced) = cur.file.name

\* Two snapshots were produced and the callback invoked for each; a merge has renamed
\* its output in.
C14_Witness ==
    /\ Len(cbHist) = 2
    /\ Len(produced) = 2
    /\ job.pc = "unlink"
    /\ Len(job.inputs) = 2

\* A step of the merger invokes no callback.
C14_MergeInvokesNoCallback ==
    [][(job' # job \/ registry' # registry) /\ restarts' = restarts => cbHist' = cbHist]_vars

\* The log the worker is compacting, or is about to take.
LogInHand == IF cpc = "next" THEN NextLog ELSE cur.log

\* C15: a log is deleted from its path only after its snapshot was renamed in, the
\* callback returned Ok for it and the merger took its registration; when a step of
\* compact() fails, the log is still at its path.
C15_LogDeletedLast ==
    [][/\ (restarts' = restarts /\ toCompact \ toCompact' # {}) =>
            /\ cpc = "remove"
            /\ toCompact \ toCompact' = {cur.log}
            /\ Last(produced) = cur.file.name
            /\ Last(cbHist) = [path |-> cur.file.name, ok |-> TRUE]
            /\ Last(regHist).path = cur.log.path
            /\ Len(regHist) = Len(produced)
            /\ Len(cbHist) = Len(produced)
       /\ (restarts' = restarts /\ failure' # failure) => LogInHand \in toCompact'
      ]_vars

\* A log has gone through the four steps and is deleted; another one failed and is kept.
C15_Witness ==
    /\ cpc = "exited"
    /\ failure = "callback"
    /\ Len(regHist) = 1
    /\ Cardinality(toCompact) = nLogs - 1
    /\ restarts = 0

\* C16: an error in a step of compact() (the builder, the callback, the registration,
\* the removal of the log), for a pending log or a submitted one, ends the worker: from
\* then on it compacts no log, invokes no callback, registers and removes nothing.
C16_ErrorEndsWorker ==
    [][/\ failure' # "none" => cpc' = "exited"
       /\ (cpc = "exited" /\ restarts' = restarts) =>
            /\ UNCHANGED <<cpc, pending, cur, produced, cbHist, regHist, failure>>
            /\ toCompact \subseteq toCompact'
            /\ \A f \in snapshots' \ snapshots : job'.out = f
      ]_vars

\* The callback failed on a pending log while another log was still pending.
C16_Witness ==
    /\ cpc = "exited"
    /\ failure = "callback"
    /\ restarts = 1
    /\ pending # <<>>

\* The removal of a submitted log failed while another log was in the channel.
C16_WitnessChannelPhase ==
    /\ cpc = "exited"
    /\ failure = "remove"
    /\ restarts = 0
    /\ chan # <<>>

\* C17: LogCompactor::compact returns an error only when the worker has exited, and
\* while the worker is alive a call is eventually accepted and returns Ok: a call that
\* has not returned can return Ok at once when the channel has room, can return Err at
\* once when the worker has exited, and otherwise the worker or the merger can take a
\* step (every behaviour has a bounded number of steps, so the tasks, which the runtime
\* keeps polling, get to the point where the call returns).
C17_ErrOnlyWhenExited ==
    /\ lret = "Err" => cpc = "exited"
    /\ lpc.pc = "sending" =>
          IF cpc = "exited" THEN ENABLED CompactReturnsErr
          ELSE IF Len(chan) < CompactorChannelCapacity THEN ENABLED CompactReturnsOk
          ELSE ENABLED (WorkerStep \/ MergerStep)
    /\ (lpc.pc = "sending" /\ cpc # "exited") => ~ENABLED CompactReturnsErr

\* A call that found the channel full has returned Ok after the worker took a message.
C17_Witness ==
    /\ lpc.pc = "idle"
    /\ lret = "Ok"
    /\ Len(chan) = CompactorChannelCapacity
    /\ nLogs = MaxSubmits
    /\ cpc # "exited"

\* A call has returned Err.
C17_WitnessErr == lret = "Err" /\ cpc = "exited"

\* C18: a call of LogCompactor::compact made while the worker is compacting a file
\* does not return before that compaction is over.
C18_BlocksDuringCompaction ==
    [][(lpc.pc = "sending" /\ lpc'.pc = "idle" /\ lpc.ongoing # 0)
          => ~(WorkerMidCompaction /\ Len(produced) = lpc.ongoing)]_vars

C20_StartNotAfterEnd ==
    \A f \in snapshots :
        /\ f.header.start_frame_no <= f.header.end_frame_no
        /\ parse_snapshot_name(f.name).kind = "Some"
        /\ parse_snapshot_name(f.name).start <= parse_snapshot_name(f.name).end

(***************************************************************************)
(* C21: at most one coalescing job is in flight.  A step that takes a      *)
(* registration off the merger channel while a job is running appends it   *)
(* to the registry and leaves the running job untouched; and a job is      *)
(* started only when none is running.                                      *)
(***************************************************************************)
RegistrationReceived ==
    /\ mpc = "loop"
    /\ mchan # <<>>
    /\ mchan' = Tail(mchan)
    /\ restarts' = restarts

JobStarted ==
    /\ job'.pc = "build"
    /\ job' # job

C21_OneJobInFlight ==
    [][/\ (RegistrationReceived /\ working) =>
            /\ registry' = Append(registry, [name |-> Head(mchan).name,
                                              frame_count |-> Head(mchan).frame_count])
            /\ job' = job
            /\ working'
       /\ JobStarted => (~working /\ job = NoJob)]_vars

\* A registration was received during a job, and the registry it was appended to
\* satisfies should_compact for the largest database size.
C21_Witness ==
    /\ mpc = "loop"
    /\ working
    /\ job # NoJob
    /\ registry # <<>>
    /\ should_compact(registry, MaxSizeAfter)

(***************************************************************************)
(* SpecRegistry: as Spec, with logs of one frame written to a database of  *)
(* up to MaxRegistryDbPages pages, so that the registry holds several      *)
(* entries before should_compact starts a job.                             *)
(***************************************************************************)
NextRegistry ==
    \/ \E sz \in 1..MaxRegistryDbPages : Compact(1, <<1>>, sz)
    \/ \E sz \in 1..MaxRegistryDbPages : CompactFails(1, <<1>>, sz)
    \/ PerformCompaction
    \/ \E created \in BOOLEAN : PerformCompactionFails(created)
    \/ \E ok \in BOOLEAN : Callback(ok)
    \/ RegisterSnapshot
    \/ RegisterSnapshotFails
    \/ RemoveLog
    \/ RemoveLogFails
    \/ \E listing \in Enumerations(snapshots) : MergerInit(listing)
    \/ MergerRecv
    \/ MergeBuild
    \/ MergeBuildFails
    \/ MergeUnlink
    \/ JobDone
    \/ MergerExit
    \/ \E listing \in Enumerations(toCompact) : Restart(listing)

SpecRegistry == Init /\ [][NextRegistry]_vars

(***************************************************************************)
(* C22: the merger's registry is sorted by start_frame_no, ascending, in   *)
(* every reachable state.  The start of an entry is the one its name       *)
(* carries.                                                                *)
(***************************************************************************)
EntryStart(entry) == parse_snapshot_name(entry.name).start
EntryEnd(entry) == parse_snapshot_name(entry.name).end

C22_RegistrySorted ==
    \A i \in 1..Len(registry) - 1 : EntryStart(registry[i]) <= EntryStart(registry[i + 1])

(***************************************************************************)
(* C23: for a single log stream the registry's ranges are adjacent (each   *)
(* entry starts at the previous entry's end + 1, hence never overlap) and  *)
(* no snapshot name occurs twice, in every reachable state.                *)
(***************************************************************************)
C23_RegistryAdjacent ==
    /\ \A i \in 1..Len(registry) - 1 :
           EntryStart(registry[i + 1]) = EntryEnd(registry[i]) + 1
    /\ \A i, j \in 1..Len(registry) : registry[i].name = registry[j].name => i = j

(***************************************************************************)
(* C24: the assertion of append_frames (line 459) never fails during a     *)
(* merge: whenever a coalescing job is about to read its inputs and all of *)
(* them are on disk, feeding them newest-first does not trip it.           *)
(***************************************************************************)
JobInputs == [i \in 1..Len(job.snapshots) |-> FileNamed(snapshots, job.snapshots[i].name)]

C24_MergeAssertionHolds ==
    (/\ mpc = "loop"
     /\ working
     /\ job.pc = "build"
     /\ \A i \in 1..Len(job.snapshots) : HasFile(snapshots, job.snapshots[i].name))
    => ~merge_feed(SnapshotBuilder_new(LogId), JobInputs).panicked

(***************************************************************************)
(* C25: with db_page_count = 1, once three snapshots of frame_count 1 have *)
(* been registered, the merger is idle and no registration is pending, the *)
(* registry has length 1 and its entry covers the range of the three       *)
(* inputs.  (In SpecChannel every log is one frame of a one-page database, *)
(* and the merger starts in its loop with an empty registry.)              *)
(***************************************************************************)
C25_ThreeMergedIntoOne ==
    (/\ mpc = "loop"
     /\ Len(regHist) = 3
     /\ mchan = <<>>
     /\ ~working)
    => /\ Len(registry) = 1
       /\ NameRange(registry[1].name) = 0..2

(***************************************************************************)
(* C26: after a merge failure has ended the merger task, the compactor     *)
(* keeps creating a snapshot for every log handed to it: it never stops    *)
(* because the merger is gone.                                             *)
(***************************************************************************)
C26_CompactorOutlivesMerger ==
    mpc = "failed" => ~(cpc = "exited" /\ failure = "register")

(***************************************************************************)
(* C26, amended: after a merge failure has ended the merger task, the      *)
(* worker's next registration fails and ends the worker: a worker at       *)
(* register_snapshot leaves it only by exiting with the registration       *)
(* error, at most one snapshot was produced without being registered, and  *)
(* an exited worker produces no snapshot.                                  *)
(***************************************************************************)
C26_MergeFailureStopsCompactor ==
    /\ [](mpc = "failed" => Len(produced) <= Len(regHist) + 1)
    /\ [][(mpc = "failed" /\ cpc = "register" /\ cpc' # "register")
             => (cpc' = "exited" /\ failure' = "register")]_vars
    /\ [][cpc = "exited" => (cpc' = "exited" /\ produced' = produced)]_vars

\* The merger has failed, the worker has produced one snapshot more than it could
\* register and has exited on the registration, leaving a queued log uncompacted.
C26_Witness ==
    /\ mpc = "failed"
    /\ cpc = "exited"
    /\ failure = "register"
    /\ Len(produced) = Len(regHist) + 1
    /\ chan # <<>>

(***************************************************************************)
(* SpecShutdown: SpecChannel started with up to MaxShutdownPending logs    *)
(* found in to_compact/, with the drop of the last LogCompactor (the only  *)
(* holder of the sender, line 105) and the end of the worker's loop.       *)
(***************************************************************************)
PendingLog(i) == LogFile(i, i - 1, <<1>>, 1)

InitShutdown ==
    /\ \E k \in 0..MaxShutdownPending :
          /\ toCompact = {PendingLog(i) : i \in 1..k}
          /\ pending = [i \in 1..k |-> PendingLog(i)]
          /\ pendingAtNew = 1..k
          /\ nLogs = k
          /\ nextFrameNo = k
    /\ snapDirExists = FALSE
    /\ snapshots = {}
    /\ cpc = "next"
    /\ chan = <<>>
    /\ cur = NoCur
    /\ mpc = "loop"
    /\ mchan = <<>>
    /\ registry = <<>>
    /\ working = FALSE
    /\ job = NoJob
    /\ regHist = <<>>
    /\ restarts = 0
    /\ WorkHistEmpty
    /\ CallsIdle
    /\ BuilderIdle
    /\ found = NoFound

SenderDropped == lpc.pc = "dropped"

\* The last LogCompactor is dropped: the worker's channel has no sender left.
DropSender ==
    /\ lpc.pc = "idle"
    /\ lpc' = [pc |-> "dropped", ongoing |-> 0]
    /\ UNCHANGED <<diskVars, loggerVars, compactorVars, mergerVars, histVars, workVars,
                   lret, decision, builderVars, found>>

\* line 214: receiver.recv() returns None (no sender, nothing queued); the loop and the
\* task end, which drops `merger` and with it the sender of the merger's channel.
WorkerDone ==
    /\ cpc = "next"
    /\ pending = <<>>
    /\ chan = <<>>
    /\ SenderDropped
    /\ cpc' = "exited"
    /\ UNCHANGED <<diskVars, loggerVars, pending, chan, cur, mergerVars, histVars,
                   workVars, auxVars>>

NextShutdown ==
    \/ CompactCallUpTo(MaxShutdownLogs)
    \/ CompactReturnsOk
    \/ CompactReturnsErr
    \/ DropSender
    \/ PerformCompaction
    \/ \E created \in BOOLEAN : PerformCompactionFails(created)
    \/ \E ok \in BOOLEAN : Callback(ok)
    \/ RegisterSnapshot
    \/ RegisterSnapshotFails
    \/ RemoveLog
    \/ RemoveLogFails
    \/ WorkerDone
    \/ MergerRecv
    \/ MergeBuild
    \/ MergeBuildFails
    \/ MergeUnlink
    \/ JobDone
    \/ MergerExit

SpecShutdown == InitShutdown /\ [][NextShutdown]_vars

\* The tasks take their steps as long as they can: the runtime keeps scheduling a task
\* that is ready, and a blocked call returns once the channel lets it.
SpecShutdownFair ==
    /\ SpecShutdown
    /\ WF_vars(WorkerStep \/ WorkerDone)
    /\ WF_vars(MergerStep)

(***************************************************************************)
(* C27: clean shutdown.  The worker ends without an error only once the    *)
(* sender is dropped and every pending and queued log is compacted,        *)
(* registered and removed; the merger returns Ok only after the worker has *)
(* ended, with its channel empty and no job in flight, and a running job   *)
(* is never abandoned; the merger ends otherwise only by an I/O error of   *)
(* merge_snapshots; until both tasks have ended one of them can take a     *)
(* step, and under fair scheduling both do end.                            *)
(***************************************************************************)
WorkerEndedCleanly == cpc = "exited" /\ failure = "none"

Terminated == cpc = "exited" /\ mpc \in {"done", "failed"}

C27_WitnessDropMidWork ==
    /\ SenderDropped
    /\ pendingAtNew # {}
    /\ chan # <<>>
    /\ working
    /\ cpc # "exited"

====
